---- MODULE Spec2Model ----
(***************************************************************************)
(* Model of src/hampel_filter.py: median_absolute_deviation,               *)
(* estimated_standard_deviation and hampel_filter.                         *)
(*                                                                         *)
(* Numbers.  Samples are float64 values.  The model keeps every ordinary   *)
(* value as an integer count of 1/Unit, so the halves and quarters that    *)
(* medians of even-length sequences produce are exact.  A product with a   *)
(* scale factor (1.4826 = DefaultScale/ScaleDen) is kept as an integer     *)
(* count of 1/(Unit*ScaleDen).  Within the bounds below no product is      *)
(* close enough to a deviation for float64 rounding to change the          *)
(* comparison of line 62: the two sides are equal only when both are 0.    *)
(*                                                                         *)
(* Arrays.  numpy arrays are objects; `heap` maps each allocated array     *)
(* reference to its contents, and samples, padded_samples and              *)
(* filtered_samples hold references (None before they are bound).          *)
(***************************************************************************)
EXTENDS Integers, Sequences, FiniteSets, TLC

VARIABLES
    pc,               \* position in hampel_filter / which statistic call
    heap,             \* array reference -> contents
    samples,          \* reference of the caller's array (argument)
    window_size,      \* argument
    nsigma,           \* argument
    padded_samples,   \* reference bound at line 49
    filtered_samples, \* reference bound at line 55
    i,                \* loop index of line 56 (0-based)
    visited,          \* indices the loop body has run for, in order
    outliers,         \* indices for which line 63 was executed
    result,           \* returned reference (line 65)
    error,            \* raised exception (line 47)
    a,                \* argument of the statistics functions
    scale_factor,     \* argument of estimated_standard_deviation
    ret               \* value returned by a statistics function

vars == <<pc, heap, samples, window_size, nsigma, padded_samples,
          filtered_samples, i, visited, outliers, result, error,
          a, scale_factor, ret>>

hampelVars == <<heap, samples, window_size, nsigma, padded_samples,
                filtered_samples, i, visited, outliers, result, error>>

statVars == <<a, scale_factor, ret>>

-----------------------------------------------------------------------------
(* Number representation and bounds *)

Unit == 4
ScaleDen == 10000
DefaultScale == 14826
DefaultWindow == 11

MaxLen == 3
MaxVal == 3
MaxWindow == 5
MaxNSigma == 3

None == 0
NaN == "nan"

SamplesRef == 1
PaddedRef == 2
FilteredRef == 3

ValueErrorOdd == "ValueError: Window size must be odd!"

Example == <<1 * Unit, 2 * Unit, 3 * Unit, 100 * Unit, 5 * Unit, 6 * Unit, 7 * Unit>>

SampleValues == {v * Unit : v \in 0..MaxVal}

Inputs == UNION {[1..n -> SampleValues] : n \in 1..MaxLen} \cup {Example}

StatExample == <<1 * Unit, 2 * Unit, 3 * Unit, 4 * Unit, 5 * Unit>>

WindowSizes == (0..MaxWindow) \cup {DefaultWindow - 1, DefaultWindow}

NSigmas == -1..MaxNSigma

ScaleFactors == {0 - ScaleDen, 0, ScaleDen, DefaultScale}

-----------------------------------------------------------------------------
(* numpy primitives *)

Abs(x) == IF x < 0 THEN 0 - x ELSE x

Min(x, y) == IF x < y THEN x ELSE y

Repeat(v, n) == [k \in 1..n |-> v]

RECURSIVE Insert(_, _)
Insert(x, s) ==
    IF s = <<>> THEN <<x>>
    ELSE IF x <= Head(s) THEN <<x>> \o s
    ELSE <<Head(s)>> \o Insert(x, Tail(s))

RECURSIVE np_sort(_)
np_sort(s) == IF s = <<>> THEN <<>> ELSE Insert(Head(s), np_sort(Tail(s)))

\* an off-by-one middle index
np_median_low(s) ==
    LET n == Len(s)
        srt == np_sort(s)
    IN  IF n = 0 THEN NaN
        ELSE IF n = 1 THEN srt[1]
        ELSE srt[n \div 2]

\* np.median: middle order statistic, or the mean of the two middle ones;
\* NaN for an empty array
np_median(s) ==
    LET n == Len(s)
        srt == np_sort(s)
    IN  IF n = 0 THEN NaN
        ELSE IF n % 2 = 1 THEN srt[(n + 1) \div 2]
        ELSE (srt[n \div 2] + srt[n \div 2 + 1]) \div 2

\* deviations without the absolute value
median_absolute_deviation_signed(arr) ==
    LET med == np_median(arr)
    IN  np_median([k \in 1..Len(arr) |-> arr[k] - med])

\* line 8
median_absolute_deviation(arr) ==
    LET med == np_median(arr)
    IN  np_median([k \in 1..Len(arr) |-> Abs(arr[k] - med)])

\* result in units of 1/(Unit*ScaleDen)
estimated_standard_deviation(arr, scale) ==
    scale * median_absolute_deviation(arr)

\* mode="edge" instead of mode="median"
np_pad_edge(arr, pad_width, stat_length) ==
    Repeat(arr[1], pad_width) \o arr \o Repeat(arr[Len(arr)], pad_width)

\* np.pad(arr, pad_width, "median", stat_length=stat_length): the statistic
\* length is limited to the array's length; each side is filled with one value
np_pad(arr, pad_width, stat_length) ==
    LET n == Len(arr)
        length == IF n < stat_length THEN n ELSE stat_length
        left_stat == np_median(SubSeq(arr, 1, length))
        right_stat == np_median(SubSeq(arr, n - length + 1, n))
    IN  Repeat(left_stat, pad_width) \o arr \o Repeat(right_stat, pad_width)

\* one window too few
NumWindowsShort(arr, w) == Len(arr) - w

\* number of windows of sliding_window_view(arr, w)
NumWindows(arr, w) == Len(arr) - w + 1

\* sliding_window_view(arr, w)[k], k 0-based
sliding_window_view(arr, w, k) == SubSeq(arr, k + 1, k + w)

\* an aliasing "copy"
np_copy_alias(ref) == ref

\* np.copy allocates a new array; this is its reference
np_copy(ref) == FilteredRef

-----------------------------------------------------------------------------
(* hampel_filter *)

\* inverted parity check
IsOdd(w) == w % 2 = 1

\* line 46
IsEven(w) == w % 2 = 0

\* line 58
local_median(window) == np_median(window)

\* line 59: scale_factor takes its default
local_standard_deviation(window) ==
    estimated_standard_deviation(window, DefaultScale)

\* threshold that adds nsigma to the deviation estimate
threshold_add(ns, window) ==
    ns * ScaleDen * Unit + local_standard_deviation(window)

\* line 60, in units of 1/(Unit*ScaleDen)
threshold(ns, window) == ns * local_standard_deviation(window)

\* non-strict comparison
IsOutlierNonStrict(sample, window, ns) ==
    Abs(sample - local_median(window)) * ScaleDen >= threshold(ns, window)

\* inverted comparison
IsOutlierInverted(sample, window, ns) ==
    Abs(sample - local_median(window)) * ScaleDen < threshold(ns, window)

\* line 62
IsOutlier(sample, window, ns) ==
    Abs(sample - local_median(window)) * ScaleDen > threshold(ns, window)

Init ==
    /\ pc = "start"
    /\ \E s \in Inputs : heap = (SamplesRef :> s)
    /\ samples = SamplesRef
    /\ window_size \in WindowSizes
    /\ nsigma \in NSigmas
    /\ padded_samples = None
    /\ filtered_samples = None
    /\ i = 0
    /\ visited = <<>>
    /\ outliers = {}
    /\ result = None
    /\ error = None
    /\ a = <<>>
    /\ scale_factor = 0
    /\ ret = None

\* lines 46-47
RaiseEven ==
    /\ pc = "start"
    /\ IsEven(window_size)
    /\ pc' = "raised"
    /\ error' = ValueErrorOdd
    /\ UNCHANGED <<heap, samples, window_size, nsigma, padded_samples,
                   filtered_samples, i, visited, outliers, result>>
    /\ UNCHANGED statVars

\* lines 46, 49-51
Pad ==
    /\ pc = "start"
    /\ ~IsEven(window_size)
    /\ padded_samples' = PaddedRef
    /\ heap' = (PaddedRef :> np_pad(heap[samples], window_size \div 2,
                                    window_size \div 2)) @@ heap
    /\ pc' = "copy"
    /\ UNCHANGED <<samples, window_size, nsigma, filtered_samples, i,
                   visited, outliers, result, error>>
    /\ UNCHANGED statVars

\* lines 53-55: centered_windows is a view of padded_samples
Copy ==
    /\ pc = "copy"
    /\ filtered_samples' = np_copy(samples)
    /\ heap' = (np_copy(samples) :> heap[samples]) @@ heap
    /\ i' = 0
    /\ pc' = "loop"
    /\ UNCHANGED <<samples, window_size, nsigma, padded_samples, visited,
                   outliers, result, error>>
    /\ UNCHANGED statVars

\* lines 56-63: one iteration of the loop over zip(samples, centered_windows)
LoopBody ==
    /\ pc = "loop"
    /\ i < Min(Len(heap[samples]), NumWindows(heap[padded_samples], window_size))
    /\ LET sample == heap[samples][i + 1]
           window == sliding_window_view(heap[padded_samples], window_size, i)
       IN  IF IsOutlier(sample, window, nsigma)
           THEN /\ heap' = [heap EXCEPT ![filtered_samples][i + 1] =
                                            local_median(window)]
                /\ outliers' = outliers \cup {i}
           ELSE /\ UNCHANGED <<heap, outliers>>
    /\ visited' = Append(visited, i)
    /\ i' = i + 1
    /\ UNCHANGED <<pc, samples, window_size, nsigma, padded_samples,
                   filtered_samples, result, error>>
    /\ UNCHANGED statVars

\* lines 56, 65: the iterator is exhausted
Return ==
    /\ pc = "loop"
    /\ ~(i < Min(Len(heap[samples]), NumWindows(heap[padded_samples], window_size)))
    /\ result' = filtered_samples
    /\ pc' = "done"
    /\ UNCHANGED <<heap, samples, window_size, nsigma, padded_samples,
                   filtered_samples, i, visited, outliers, error>>
    /\ UNCHANGED statVars

Next == RaiseEven \/ Pad \/ Copy \/ LoopBody \/ Return

Spec == Init /\ [][Next]_vars

-----------------------------------------------------------------------------
(* The statistics functions called on their own *)

InitStats ==
    /\ pc = "stats"
    /\ a \in Inputs \cup {StatExample}
    /\ scale_factor \in ScaleFactors
    /\ ret = None
    /\ heap = <<>>
    /\ samples = None
    /\ window_size = 1
    /\ nsigma = 0
    /\ padded_samples = None
    /\ filtered_samples = None
    /\ i = 0
    /\ visited = <<>>
    /\ outliers = {}
    /\ result = None
    /\ error = None

\* lines 6-8
CallMAD ==
    /\ pc = "stats"
    /\ pc' = "mad"
    /\ ret' = median_absolute_deviation(a)
    /\ UNCHANGED <<a, scale_factor>>
    /\ UNCHANGED hampelVars

\* lines 11-21
CallESD ==
    /\ pc = "stats"
    /\ pc' = "esd"
    /\ ret' = estimated_standard_deviation(a, scale_factor)
    /\ UNCHANGED <<a, scale_factor>>
    /\ UNCHANGED hampelVars

NextStats == CallMAD \/ CallESD

SpecStats == InitStats /\ [][NextStats]_vars

-----------------------------------------------------------------------------
(* Reference definitions used by the properties: the median as the middle  *)
(* order statistic(s), found by counting rather than by sorting.           *)

CountLess(s, v) == Cardinality({k \in 1..Len(s) : s[k] < v})

CountLeq(s, v) == Cardinality({k \in 1..Len(s) : s[k] <= v})

\* the k-th smallest value of s
OrderStatistic(s, k) ==
    CHOOSE v \in {s[j] : j \in 1..Len(s)} :
        CountLess(s, v) < k /\ CountLeq(s, v) >= k

MedianOf(s) ==
    LET n == Len(s)
    IN  IF n % 2 = 1 THEN OrderStatistic(s, (n + 1) \div 2)
        ELSE (OrderStatistic(s, n \div 2) + OrderStatistic(s, n \div 2 + 1)) \div 2

MADOf(s) ==
    LET m == MedianOf(s)
    IN  MedianOf([k \in 1..Len(s) |-> Abs(s[k] - m)])

In == heap[samples]

N == Len(heap[samples])

Half == window_size \div 2

\* the window of original index k: padded positions k .. k+window_size-1 (0-based)
WindowAt(k) == [j \in 1..window_size |-> heap[padded_samples][k + j]]

\* deviation of sample k from its window's median, in units of 1/(Unit*ScaleDen)
DeviationAt(k) == Abs(In[k + 1] - MedianOf(WindowAt(k))) * ScaleDen

\* nsigma * 1.4826 * MAD(window k) for a given nsigma, same units
ThresholdAt(k, ns) == ns * DefaultScale * MADOf(WindowAt(k))

\* number of positions whose deviation exceeds the threshold for a given nsigma
ReplacedCount(ns) ==
    Cardinality({k \in 0..(N - 1) :
        IsOutlier(In[k + 1], WindowAt(k), ns)})

-----------------------------------------------------------------------------
(* Properties *)

\* C1: every processed position holds the window's median (and is flagged) when
\* its deviation is strictly greater than nsigma * 1.4826 * MAD(window), and holds
\* the original sample (and is not flagged) otherwise, ties included; positions
\* not yet processed hold the original sample; when no position exceeds its
\* threshold the returned sequence equals the input.
C1_DecisionRule ==
    pc \in {"loop", "done"} =>
        /\ \A k \in 0..(N - 1) :
              IF k < i /\ DeviationAt(k) > ThresholdAt(k, nsigma)
              THEN /\ heap[filtered_samples][k + 1] = MedianOf(WindowAt(k))
                   /\ k \in outliers
              ELSE /\ heap[filtered_samples][k + 1] = In[k + 1]
                   /\ k \notin outliers
        /\ pc = "done" =>
              /\ i = N
              /\ ((\A k \in 0..(N - 1) : DeviationAt(k) <= ThresholdAt(k, nsigma))
                     => heap[result] = In)

\* a finished call with a replaced position, a tie that was kept, and a kept
\* position with a non-zero deviation below its threshold
C1_Witness ==
    /\ pc = "done"
    /\ \E k \in 0..(N - 1) :
          /\ DeviationAt(k) > ThresholdAt(k, nsigma)
          /\ heap[result][k + 1] # In[k + 1]
    /\ \E k \in 0..(N - 1) :
          /\ DeviationAt(k) = ThresholdAt(k, nsigma)
          /\ k \notin outliers
    /\ \E k \in 0..(N - 1) :
          /\ DeviationAt(k) > 0
          /\ DeviationAt(k) < ThresholdAt(k, nsigma)
          /\ heap[result][k + 1] = In[k + 1]

\* C2: for odd window sizes (larger than n included) the loop visits the indices
\* 0..n-1 in order, each once: the zip of line 56 yields exactly n pairs, so the
\* loop runs while i < n and returns at i = n; the returned sequence has exactly
\* n elements.
C2_LengthPreserved ==
    /\ pc \in {"loop", "done"} =>
          /\ Min(N, NumWindows(heap[padded_samples], window_size)) = N
          /\ i <= N
          /\ visited = [k \in 1..i |-> k - 1]
          /\ Len(heap[filtered_samples]) = N
    /\ pc = "done" =>
          /\ visited = [k \in 1..N |-> k - 1]
          /\ Len(heap[result]) = N

\* a finished call whose window is larger than a sequence of at least two samples
C2_Witness ==
    /\ pc = "done"
    /\ N >= 2
    /\ window_size > N
    /\ Len(heap[result]) = N
    /\ Len(visited) = N

\* C3: with an even window size the call raises "Window size must be odd!" as its
\* first step: no padded array, no working copy, no loop iteration, no result.
C3_EvenRejected ==
    window_size % 2 = 0 =>
        /\ pc \in {"start", "raised"}
        /\ pc = "raised" => error = ValueErrorOdd
        /\ DOMAIN heap = {SamplesRef}
        /\ padded_samples = None
        /\ filtered_samples = None
        /\ visited = <<>>
        /\ outliers = {}
        /\ result = None

\* the call with window size 10 has raised
C3_Witness ==
    /\ pc = "raised"
    /\ window_size = DefaultWindow - 1
    /\ error = ValueErrorOdd
    /\ result = None

C5_InputNeverWritten ==
    /\ [][/\ heap'[samples] = heap[samples]
          /\ padded_samples # None =>
                heap'[padded_samples] = heap[padded_samples]
          /\ filtered_samples # None =>
                \A k \in 1..Len(heap[filtered_samples]) :
                    k # i + 1 =>
                        heap'[filtered_samples][k] = heap[filtered_samples][k]
          /\ pc' = "done" => result' # samples]_vars
    /\ [](padded_samples # None =>
            SubSeq(heap[padded_samples], Half + 1, Half + N) = In)

\* a replacement has been written at a position that lies inside the window of a
\* later position, and the output differs from the input there
C5_Witness ==
    /\ pc = "done"
    /\ window_size >= 3
    /\ \E k \in outliers :
          /\ k + 1 < N
          /\ heap[result][k + 1] # In[k + 1]

\* C6: the number of replaced positions is antitone in nsigma: a larger nsigma
\* replaces at most as many positions as this call did, a smaller one at least
\* as many.
C6_Monotone ==
    pc = "done" =>
        \A ns \in NSigmas :
            /\ nsigma <= ns => Cardinality(outliers) >= ReplacedCount(ns)
            /\ ns <= nsigma => ReplacedCount(ns) >= Cardinality(outliers)

\* a call that replaced something, where a larger nsigma replaces strictly less
C6_Witness ==
    /\ pc = "done"
    /\ outliers # {}
    /\ \E ns \in NSigmas :
          /\ nsigma < ns
          /\ nsigma >= 1
          /\ ReplacedCount(ns) < Cardinality(outliers)

\* C7: with window_size = 1 and nsigma >= 0 the padded array is the input itself,
\* no position is flagged, and the output equals the input.
C7_WindowOne ==
    (window_size = 1 /\ nsigma >= 0) =>
        /\ padded_samples # None => heap[padded_samples] = In
        /\ outliers = {}
        /\ filtered_samples # None => heap[filtered_samples] = In
        /\ pc = "done" => heap[result] = In

\* a finished call with window size 1 on at least two distinct samples
C7_Witness ==
    /\ pc = "done"
    /\ window_size = 1
    /\ nsigma >= 0
    /\ N >= 2
    /\ In[1] # In[2]
    /\ heap[result] = In

\* C8: median_absolute_deviation(a) is the median of |a_i - median(a)|, the median
\* being the middle order statistic or the mean of the two middle ones, and
\* estimated_standard_deviation(a, s) is s times that; for [1,2,3,4,5] they are
\* 1 and (default scale) 1.4826.
C8_Statistics ==
    /\ pc = "mad" => ret = MADOf(a)
    /\ pc = "esd" => ret = scale_factor * MADOf(a)
    /\ (pc = "mad" /\ a = StatExample) => ret = 1 * Unit
    /\ (pc = "esd" /\ a = StatExample /\ scale_factor = DefaultScale) =>
          ret = DefaultScale * Unit

\* the estimate for [1,2,3,4,5] with the default scale factor has been returned
C8_Witness ==
    /\ pc = "esd"
    /\ a = StatExample
    /\ scale_factor = DefaultScale
    /\ ret = DefaultScale * Unit

\* C9: for 1 <= half <= n the padded array is half copies of the median of the
\* first half samples, the samples, and half copies of the median of the last
\* half samples; window i is padded[i .. i+window_size-1] and samples[i] is its
\* centre element.
C9_PaddingAndWindows ==
    (padded_samples # None /\ 1 <= Half /\ Half <= N) =>
        /\ heap[padded_samples] =
              Repeat(MedianOf(SubSeq(In, 1, Half)), Half)
              \o In
              \o Repeat(MedianOf(SubSeq(In, N - Half + 1, N)), Half)
        /\ \A k \in 0..(N - 1) :
              /\ sliding_window_view(heap[padded_samples], window_size, k)
                    = WindowAt(k)
              /\ sliding_window_view(heap[padded_samples], window_size, k)[Half + 1]
                    = In[k + 1]

\* padding whose two sides differ and whose left value is no sample's value
C9_Witness ==
    /\ padded_samples # None
    /\ 2 <= Half
    /\ Half < N
    /\ heap[padded_samples][1] # heap[padded_samples][Len(heap[padded_samples])]
    /\ \A k \in 1..N : In[k] # heap[padded_samples][1]
    /\ heap[padded_samples][1] = heap[padded_samples][Half]

\* C10: a processed sample whose window has MAD 0 and that differs from the
\* window's median is replaced by that median, whatever nsigma is.
C10_ZeroMAD ==
    pc \in {"loop", "done"} =>
        \A k \in 0..(N - 1) :
            (k < i /\ MADOf(WindowAt(k)) = 0 /\ In[k + 1] # MedianOf(WindowAt(k)))
                => /\ k \in outliers
                   /\ heap[filtered_samples][k + 1] = MedianOf(WindowAt(k))

\* with the largest nsigma, a sample in a zero-MAD window has been replaced
C10_Witness ==
    /\ pc = "done"
    /\ nsigma = MaxNSigma
    /\ \E k \in 0..(N - 1) :
          /\ MADOf(WindowAt(k)) = 0
          /\ In[k + 1] # MedianOf(WindowAt(k))
          /\ k \in outliers
          /\ heap[result][k + 1] = MedianOf(WindowAt(k))

====
